---- MODULE Spec2Model ----
(***************************************************************************)
(* A model of space_shooter.js: the fixed-timestep loop, the entity        *)
(* registry with its removal queue, and the update rules of Player, Enemy  *)
(* and Projectile.                                                         *)
(*                                                                         *)
(* Units.  Positions are fixed-point numbers with Scale units per pixel.   *)
(* Times are counted in ticks of 1/TimeUnit second, so the fixed step of   *)
(* 1/60 s is FixedStep ticks and the 0.5 s of the shot timer is HalfSecond *)
(* ticks.                                                                  *)
(***************************************************************************)
EXTENDS Integers, Sequences, FiniteSets, TLC

VARIABLES
    entities,          \* var entities: id -> body (a sparse array)
    queue,             \* var queued_entities_for_removal
    player,            \* var player: the id of the active Player
    running_id,        \* var running_id
    enemiesHit,        \* var enemiesHit
    enemyCount,        \* var enemyCount
    masterTime,        \* var masterTime
    timeAliveCount,    \* var timeAliveCount
    prevAliveCount,    \* var prevAliveCount
    currerntHighScore, \* var currerntHighScore
    masterHighScore,   \* var masterHighScore
    projShotTime,      \* var projShotTime
    last_time,         \* var last_time (Null before the first callback)
    loop_count,        \* var loop_count
    delta_time,        \* the local delta_time of the running loop() call
    curr_time,         \* the parameter curr_time of the running loop() call
    pc,                \* position of the frame callback
    now,               \* wall clock of the host (time of the last callback)
    stepLog,           \* what the last update() call did, in order
    stepArg,           \* the delta_time argument of the last update() call
    simTime,           \* sum of the arguments of all update() calls
    updates,           \* number of update() calls
    draws,             \* number of draw() calls
    shots,             \* one record for each Projectile constructed
    held,              \* number of consecutive steps polled with action_1
                       \* set up to the last one (0 when it was not set)
    damage,            \* ids of the enemies that damaged the player, in order
    kills,             \* the kills counted: projectile id and matched index
    restarts,          \* number of start() calls made by update()
    moves,             \* the position of each Enemy updated by the last
                       \* update() call, before and after its update
    flushed            \* the queue and the registry at the last flush

vars == <<entities, queue, player, running_id, enemiesHit, enemyCount,
          masterTime, timeAliveCount, prevAliveCount, currerntHighScore,
          masterHighScore, projShotTime, last_time, loop_count, delta_time,
          curr_time, pc, now, stepLog, stepArg, simTime, updates, draws,
          shots, held, damage, kills, restarts, moves, flushed>>

----------------------------------------------------------------------------
(* Units and program constants *)

Scale == 1000
TimeUnit == 240
FixedStep == 4
HalfSecond == 120

CanvasWidth == 360
CanvasHeight == 500

Key_space == 32
Key_right == 68
Key_left == 65
Key_up == 87
Key_down == 83

PlayerSpeed == 2000
PlayerDiagonalSpeed == 1414
EnemySpeed == 3000
EnemyDiagonalStep == 2828
ProjectileSpeed == 5000

\* last_time = null; every callback time is positive
Null == -1
Hole == [hole |-> TRUE]

----------------------------------------------------------------------------
(* JavaScript arrays with holes: index i of the array is element i+1 *)

ArraySet(arr, i, v) ==
    IF i < Len(arr)
    THEN [arr EXCEPT ![i + 1] = v]
    ELSE arr \o [k \in 1..(i - Len(arr)) |-> Hole] \o <<v>>

Splice(arr, i) ==
    IF i < Len(arr)
    THEN SubSeq(arr, 1, i) \o SubSeq(arr, i + 2, Len(arr))
    ELSE arr

Min(a, b) == IF a < b THEN a ELSE b
Max(a, b) == IF a > b THEN a ELSE b
Clip(v, hi) == Min(Max(0, v), hi)

\* Math.round on a fixed-point number: nearest pixel, halves upward
Round(v) == (v + Scale \div 2) \div Scale

Log(w, ev, id) ==
    [w EXCEPT !.log = Append(@, [ev |-> ev, id |-> id,
                                 reg |-> DOMAIN w.entities,
                                 queue |-> w.queue])]

----------------------------------------------------------------------------
(* Body *)

\* this.id = running_id++; entities[this.id] = this
BodyConstructor(w, body) ==
    [w EXCEPT !.running_id = @ + 1,
              !.entities = (w.running_id :> ([id |-> w.running_id] @@ body))
                           @@ w.entities]

RECURSIVE Restrict(_, _)
\* the function f on the keys ks only
Restrict(f, ks) ==
    IF ks = {} THEN <<>>
    ELSE LET k == CHOOSE i \in ks : \A j \in ks : i <= j
         IN  (k :> f[k]) @@ Restrict(f, ks \ {k})

\* delete entities[id]
Delete(f, id) == Restrict(f, DOMAIN f \ {id})

\* the fields of a body written by its own update: they show in the registry
\* as long as the body is in it
SetBody(w, id, body) ==
    IF id \in DOMAIN w.entities THEN [w EXCEPT !.entities[id] = body] ELSE w

\* a remove() that drops the body from the registry at once
BodyRemoveNow(w, id) ==
    Log([w EXCEPT !.queue = Append(@, id),
                  !.entities = Delete(w.entities, id)],
        "remove", id)

BodyRemove(w, id) ==
    Log([w EXCEPT !.queue = Append(@, id)], "remove", id)

isDead(body) == body.health <= 0

NewPlayer ==
    [kind |-> "Player", x |-> (CanvasWidth \div 2) * Scale,
     y |-> (CanvasHeight - 100) * Scale, health |-> 100,
     controller |-> [move_x |-> 0, move_y |-> 0, action_1 |-> FALSE],
     raw_input |-> {}, enemyTimer |-> 0, projectileReady |-> FALSE,
     color |-> "green", hit |-> 0, enemies |-> <<>>, projectiles |-> <<>>]

NewEnemy(rx) ==
    [kind |-> "Enemy", x |-> rx * Scale, y |-> (-50) * Scale, health |-> 100]

NewProjectile(p) ==
    [kind |-> "Projectile", x |-> 0, y |-> 0, health |-> 100,
     projectile |-> [x |-> p.x, y |-> p.y]]

----------------------------------------------------------------------------
(* InputHandler *)

Axis(raw, plus, minus) ==
    (IF plus \in raw THEN 1 ELSE 0) + (IF minus \in raw THEN -1 ELSE 0)

pollController(p) ==
    [p EXCEPT !.controller =
        [action_1 |-> Key_space \in p.raw_input,
         move_x |-> Axis(p.raw_input, Key_right, Key_left),
         move_y |-> Axis(p.raw_input, Key_down, Key_up)]]

----------------------------------------------------------------------------
(* Player.update *)

PlayerSpawn(w, t, rx) ==
    IF t % 20 = 0
    THEN BodyConstructor([w EXCEPT !.enemyCount = @ + 1], NewEnemy(rx))
    ELSE w

PlayerArm(t, ready) == IF t % 40 = 0 /\ ~ready THEN TRUE ELSE ready

PlayerCanFire(w, p, ready) ==
    p.controller.action_1 /\ ready /\ w.masterTime > w.projShotTime + HalfSecond

PlayerFire(w, p) ==
    [BodyConstructor([w EXCEPT !.projShotTime = w.masterTime],
                     NewProjectile(p))
        EXCEPT !.fired = TRUE]

PlayerFlash(p) ==
    IF p.hit # 0 /\ p.health > 0
    THEN LET h == p.hit - 1 IN
         [p EXCEPT !.hit = h,
                   !.color = IF h > 80 \/ (h > 40 /\ h < 60) \/ (h < 20 /\ h > 2)
                             THEN "red" ELSE "green"]
    ELSE [p EXCEPT !.color = "green"]

PlayerMove(p) ==
    LET mx == p.controller.move_x
        my == p.controller.move_y
        d == PlayerDiagonalSpeed
    IN  IF mx = 1 /\ my = -1 THEN [p EXCEPT !.x = @ + d, !.y = @ - d]
        ELSE IF mx = -1 /\ my = -1 THEN [p EXCEPT !.x = @ - d, !.y = @ - d]
        ELSE IF mx = -1 /\ my = 1 THEN [p EXCEPT !.x = @ - d, !.y = @ + d]
        ELSE IF mx = 1 /\ my = 1 THEN [p EXCEPT !.x = @ + d, !.y = @ + d]
        ELSE IF mx = -1 THEN [p EXCEPT !.x = @ - PlayerSpeed]
        ELSE IF mx = 1 THEN [p EXCEPT !.x = @ + PlayerSpeed]
        ELSE IF my = -1 THEN [p EXCEPT !.y = @ - PlayerSpeed]
        ELSE IF my = 1 THEN [p EXCEPT !.y = @ + PlayerSpeed]
        ELSE p

\* Body.update: position += delta_time * velocity; no code assigns a
\* velocity, so it stays {0, 0} and the position is left as it is
BodyUpdate(body) == body

\* a Player.update that does not clip the position to the screen
PlayerNoClip(p) == p

PlayerClip(p) ==
    [p EXCEPT !.x = Clip(@, CanvasWidth * Scale),
              !.y = Clip(@, CanvasHeight * Scale)]

PlayerUpdate(w0, id, rx) ==
    LET p0 == w0.entities[id]
        t == p0.enemyTimer + 1
        w1 == PlayerSpawn(w0, t, rx)
        ready == PlayerArm(t, p0.projectileReady)
        fire == PlayerCanFire(w1, p0, ready)
        w2 == IF fire THEN PlayerFire(w1, p0) ELSE w1
        p1 == [p0 EXCEPT !.enemyTimer = t,
                         !.projectileReady = IF fire THEN FALSE ELSE ready]
        p2 == PlayerClip(BodyUpdate(PlayerMove(PlayerFlash(p1))))
    IN  [w2 EXCEPT !.entities[id] = p2]

----------------------------------------------------------------------------
(* Enemy.update and Projectile.update *)

RECURSIVE RemoveTimes(_, _, _)
\* n calls of this.remove()
RemoveTimes(w, id, n) ==
    IF n = 0 THEN w ELSE RemoveTimes(BodyRemove(w, id), id, n - 1)

\* the entries that Array.prototype.map visits: the indices that are not holes
Visited(arr) == {i \in 1..Len(arr) : arr[i] # Hole}

\* player.enemies[this.id] = ... / player.projectiles[this.id] = ...
Publish(w, id, name, val) ==
    [w EXCEPT !.entities[w.player][name] = ArraySet(@, id, val),
              !.log = Append(@, [ev |-> "publish", id |-> id, arr |-> name,
                                 idx |-> id, val |-> val])]

\* the entries that one map() over an observation array reads, in order
Reads(id, name, arr) ==
    SelectSeq([i \in 1..Len(arr) |->
                  [ev |-> "read", id |-> id, arr |-> name,
                   idx |-> i - 1, val |-> arr[i]]],
              LAMBDA r : r.val # Hole)

ReadAll(w, id, name) ==
    [w EXCEPT !.log = @ \o Reads(id, name, w.entities[w.player][name])]

InBox(ax, ay, r, bx, by) ==
    (ax + r >= bx /\ ax - r <= bx) /\ (ay + r >= by /\ ay - r <= by)

\* a homing test that leaves out the multiple-of-4 condition
EnemyHomingNear(e, pl) ==
    /\ pl.y - e.y < 150 * Scale
    /\ pl.y - e.y > 0

EnemyHoming(e, pl) ==
    /\ pl.y - e.y < 150 * Scale
    /\ pl.y - e.y > 0
    /\ Round(e.y) % 4 = 0

EnemyMove(e, pl) ==
    IF EnemyHoming(e, pl)
    THEN IF pl.x > e.x
         THEN [e EXCEPT !.x = @ + EnemyDiagonalStep, !.y = @ + EnemyDiagonalStep]
         ELSE [e EXCEPT !.x = @ - EnemyDiagonalStep, !.y = @ + EnemyDiagonalStep]
    ELSE [e EXCEPT !.y = @ + EnemySpeed]

\* an Enemy.update that does not clip the position
EnemyNoClip(e) == e

EnemyClip(e) ==
    [e EXCEPT !.x = Clip(@, (CanvasWidth + 50) * Scale),
              !.y = Clip(@, (CanvasHeight + 50) * Scale)]

EnemyTouchesPlayer(e, pl) == InBox(e.x, e.y, 10 * Scale, pl.x, pl.y)

\* an Enemy that stays in the game when the player has died
EnemySurvivesPlayer(w, id) == w

\* if (player.health == 0) this.remove()
EnemyDiesWithPlayer(w, id) ==
    IF w.entities[w.player].health = 0 THEN BodyRemove(w, id) ELSE w

\* an Enemy that is kept when it has gone past the bottom of the screen
EnemyStays(w, id, e) == w

\* if (this.position.y > 500) this.remove()
EnemyLeaves(w, id, e) ==
    IF e.y > 500 * Scale THEN BodyRemove(w, id) ELSE w

EnemyUpdate(w0, id) ==
    LET e0 == w0.entities[id]
        pid == w0.player
        w1 == EnemyDiesWithPlayer(w0, id)
        w2 == Publish(w1, id, "enemies", [x |-> e0.x, y |-> e0.y])
        w3 == IF id = 1 THEN BodyRemove(w2, id) ELSE w2
        pl == w3.entities[pid]
        e1 == EnemyMove(e0, pl)
        w4 == EnemyLeaves(w3, id, e1)
        hits == {i \in Visited(pl.projectiles) :
                    InBox(e1.x, e1.y, 10 * Scale,
                          pl.projectiles[i].x, pl.projectiles[i].y)}
        w5 == RemoveTimes(ReadAll(w4, id, "projectiles"), id,
                          Cardinality(hits))
        w6 == IF EnemyTouchesPlayer(e1, pl)
              THEN BodyRemove([w5 EXCEPT !.entities[pid].hit = 100,
                                         !.entities[pid].health = @ - 25,
                                         !.damage = Append(@, id)], id)
              ELSE w5
        e2 == EnemyClip(BodyUpdate(e1))
    IN  [SetBody(w6, id, e2) EXCEPT
                   !.moves = Append(@, [id |-> id, x0 |-> e0.x, y0 |-> e0.y,
                                        x1 |-> e2.x, y1 |-> e2.y,
                                        px |-> pl.x, py |-> pl.y])]

ProjectileClip(q) ==
    [q EXCEPT !.projectile.x = Clip(@, CanvasWidth * Scale),
              !.projectile.y = Clip(@, CanvasHeight * Scale)]

ProjectileUpdate(w0, id) ==
    LET q0 == w0.entities[id]
        pid == w0.player
        w1 == IF w0.entities[pid].health = 0 THEN BodyRemove(w0, id) ELSE w0
        w2 == Publish(w1, id, "projectiles",
                      [x |-> q0.projectile.x, y |-> q0.projectile.y])
        q1 == [q0 EXCEPT !.projectile.y = @ - ProjectileSpeed]
        w3 == IF q1.projectile.y < 0 THEN BodyRemove(w2, id) ELSE w2
        pl == w3.entities[pid]
        hits == {i \in Visited(pl.enemies) :
                    InBox(q1.projectile.x, q1.projectile.y, 8 * Scale,
                          pl.enemies[i].x, pl.enemies[i].y)}
        n == Cardinality(hits)
        hit == SelectSeq([i \in 1..Len(pl.enemies) |-> i], LAMBDA i : i \in hits)
        w4 == RemoveTimes([ReadAll(w3, id, "enemies")
                              EXCEPT !.enemiesHit = @ + n,
                                     !.kills = @ \o [k \in 1..n |->
                                                 [by |-> id, idx |-> hit[k] - 1]]],
                          id, n)
    IN  SetBody(w4, id, ProjectileClip(BodyUpdate(q1)))

----------------------------------------------------------------------------
(* start() and update() *)

\* a start() that begins the ids of the new session at 0 again
startResetsIds(w0, sx) ==
    LET w1 == [w0 EXCEPT
                 !.masterHighScore = IF w0.currerntHighScore > @
                                     THEN w0.currerntHighScore ELSE @,
                 !.prevAliveCount = w0.masterTime,
                 !.enemiesHit = 0,
                 !.enemyCount = 0,
                 !.timeAliveCount = 0,
                 !.entities = <<>>,
                 !.queue = <<>>,
                 !.running_id = 0,
                 !.player = 0]
        w2 == BodyConstructor(w1, NewPlayer)
    IN  BodyConstructor(w2, NewEnemy(sx))

\* a start() that does not clear the registry
startKeepsEntities(w0, sx) ==
    LET w1 == [w0 EXCEPT
                 !.masterHighScore = IF w0.currerntHighScore > @
                                     THEN w0.currerntHighScore ELSE @,
                 !.prevAliveCount = w0.masterTime,
                 !.enemiesHit = 0,
                 !.enemyCount = 0,
                 !.timeAliveCount = 0,
                 !.queue = <<>>,
                 !.player = w0.running_id]
        w2 == BodyConstructor(w1, NewPlayer)
    IN  BodyConstructor(w2, NewEnemy(sx))

start(w0, sx) ==
    LET w1 == [w0 EXCEPT
                 !.masterHighScore = IF w0.currerntHighScore > @
                                     THEN w0.currerntHighScore ELSE @,
                 !.prevAliveCount = w0.masterTime,
                 !.enemiesHit = 0,
                 !.enemyCount = 0,
                 !.timeAliveCount = 0,
                 !.entities = <<>>,
                 !.queue = <<>>,
                 !.player = w0.running_id]
        w2 == BodyConstructor(w1, NewPlayer)
    IN  BodyConstructor(w2, NewEnemy(sx))

EntityUpdate(w, id, rx) ==
    LET k == w.entities[id].kind
        w1 == Log(w, "update", id)
    IN  IF k = "Player" THEN PlayerUpdate(w1, id, rx)
        ELSE IF k = "Enemy" THEN EnemyUpdate(w1, id)
        ELSE ProjectileUpdate(w1, id)

RECURSIVE UpdateEntities(_, _, _)
\* Object.values(entities).forEach: the bodies present when the pass starts,
\* by ascending id
UpdateEntities(w, ids, rx) ==
    IF ids = {} THEN w
    ELSE LET id == CHOOSE i \in ids : \A j \in ids : i <= j
         IN  UpdateEntities(EntityUpdate(w, id, rx), ids \ {id}, rx)

\* a flush that leaves the queued entity in the registry
FlushOneKeeps(w, id) == w

FlushOne(w, id) ==
    [w EXCEPT !.entities =
        Delete([@ EXCEPT ![w.player].enemies = Splice(@, id),
                         ![w.player].projectiles = Splice(@, id)], id)]

RECURSIVE FlushAll(_, _)
FlushAll(w, q) ==
    IF q = <<>> THEN w ELSE FlushAll(FlushOne(w, Head(q)), Tail(q))

Flush(w) ==
    LET w1 == FlushAll(Log(w, "flush", -1), w.queue)
    IN  [w1 EXCEPT !.queue = <<>>,
                   !.flushed = [queue |-> w.queue, player |-> w.player,
                                before |-> w.entities,
                                after |-> w1.entities]]

\* an update() that restarts whenever action_1 is pressed
RestartWhenPressed(w, sx) ==
    LET pl == w.entities[w.player] IN
    IF pl.controller.action_1
    THEN [start(Log(w, "start", -1), sx) EXCEPT !.restarted = TRUE]
    ELSE w

Restart(w, sx) ==
    LET pl == w.entities[w.player] IN
    IF isDead(pl) /\ pl.controller.action_1
    THEN [start(Log(w, "start", -1), sx) EXCEPT !.restarted = TRUE]
    ELSE w

\* an update() that flushes the queue before the entity updates
updateFlushFirst(w0, rx, sx) ==
    LET w1 == [w0 EXCEPT !.entities[w0.player] = pollController(@)]
        w2 == Flush(w1)
        w3 == UpdateEntities(w2, DOMAIN w2.entities, rx)
    IN  Restart(w3, sx)

update(w0, rx, sx) ==
    LET w1 == [w0 EXCEPT !.entities[w0.player] = pollController(@)]
        w2 == UpdateEntities(w1, DOMAIN w1.entities, rx)
        w3 == Flush(w2)
    IN  Restart(w3, sx)

----------------------------------------------------------------------------
(* The state as one record, and loop() *)

World ==
    [entities |-> entities, queue |-> queue, player |-> player,
     running_id |-> running_id, enemiesHit |-> enemiesHit,
     enemyCount |-> enemyCount, masterTime |-> masterTime,
     timeAliveCount |-> timeAliveCount, prevAliveCount |-> prevAliveCount,
     currerntHighScore |-> currerntHighScore,
     masterHighScore |-> masterHighScore, projShotTime |-> projShotTime,
     damage |-> damage, kills |-> kills,
     log |-> <<>>, moves |-> <<>>, flushed |-> flushed,
     fired |-> FALSE, restarted |-> FALSE]

NoFlush == [queue |-> <<>>, player |-> -1, before |-> <<>>, after |-> <<>>]

\* the globals as declared, before the first start()
Globals ==
    [entities |-> <<>>, queue |-> <<>>, player |-> -1,
     running_id |-> 0, enemiesHit |-> 0, enemyCount |-> 0, masterTime |-> 0,
     timeAliveCount |-> 0, prevAliveCount |-> 0, currerntHighScore |-> 0,
     masterHighScore |-> 0, projShotTime |-> 0,
     damage |-> <<>>, kills |-> <<>>,
     log |-> <<>>, moves |-> <<>>, flushed |-> NoFlush,
     fired |-> FALSE, restarted |-> FALSE]

Store(w) ==
    /\ entities' = w.entities
    /\ queue' = w.queue
    /\ player' = w.player
    /\ running_id' = w.running_id
    /\ enemiesHit' = w.enemiesHit
    /\ enemyCount' = w.enemyCount
    /\ timeAliveCount' = w.timeAliveCount
    /\ prevAliveCount' = w.prevAliveCount
    /\ masterHighScore' = w.masterHighScore
    /\ projShotTime' = w.projShotTime
    /\ damage' = w.damage
    /\ kills' = w.kills
    /\ stepLog' = w.log
    /\ moves' = w.moves
    /\ flushed' = w.flushed

InitWith(xs) ==
    \E sx \in xs :
        LET w == start(Globals, sx) IN
        /\ entities = w.entities
        /\ queue = w.queue
        /\ player = w.player
        /\ running_id = w.running_id
        /\ enemiesHit = w.enemiesHit
        /\ enemyCount = w.enemyCount
        /\ masterTime = w.masterTime
        /\ timeAliveCount = w.timeAliveCount
        /\ prevAliveCount = w.prevAliveCount
        /\ currerntHighScore = w.currerntHighScore
        /\ masterHighScore = w.masterHighScore
        /\ projShotTime = w.projShotTime
        /\ damage = <<>>
        /\ kills = <<>>
        /\ stepLog = <<>>
        /\ moves = <<>>
        /\ flushed = NoFlush
        /\ last_time = Null
        /\ loop_count = 0
        /\ delta_time = 0
        /\ curr_time = 0
        /\ pc = "idle"
        /\ now = 0
        /\ stepArg = FixedStep
        /\ simTime = 0
        /\ updates = 0
        /\ draws = 0
        /\ shots = <<>>
        /\ held = 0
        /\ restarts = 0

Score(hits, alive) == 30 * hits + alive \div TimeUnit

\* a loop() that passes what is left of the frame's delta to update()
UpdateArgRemaining(delta) == delta

\* the argument that loop() passes to update()
UpdateArg(delta) == FixedStep

\* loop(curr_time) up to its while loop, called gap ticks after the last call
Loop(gap, maxLoop) ==
    /\ pc = "idle"
    /\ loop_count < maxLoop
    /\ LET t == now + gap
           last == IF last_time = Null THEN t ELSE last_time
           alive == IF entities[player].health = 0
                    THEN prevAliveCount ELSE t - prevAliveCount
           score == Score(enemiesHit, alive)
       IN  /\ now' = t
           /\ curr_time' = t
           /\ last_time' = last
           /\ delta_time' = t - last
           /\ timeAliveCount' = alive
           /\ masterTime' = t
           /\ currerntHighScore' = score
           /\ masterHighScore' = IF score > masterHighScore
                                 THEN score ELSE masterHighScore
    /\ pc' = "while"
    /\ UNCHANGED <<entities, queue, player, running_id, enemiesHit,
                   enemyCount, prevAliveCount, projShotTime, loop_count,
                   stepLog, stepArg, simTime, updates, draws, shots, held,
                   damage, kills, restarts, moves, flushed>>

\* a while loop that goes on to the next update() without a draw()
UpdateStepNoDraw(xs) ==
    /\ pc = "while"
    /\ delta_time > FixedStep
    /\ \E rx \in xs, sx \in xs :
          LET w == update(World, rx, sx)
              h == IF Key_space \in entities[player].raw_input
                   THEN held + 1 ELSE 0
          IN  /\ Store(w)
              /\ held' = h
              /\ shots' = IF w.fired
                          THEN Append(shots, [at |-> updates + 1, held |-> h])
                          ELSE shots
              /\ restarts' = IF w.restarted THEN restarts + 1 ELSE restarts
    /\ stepArg' = UpdateArg(delta_time)
    /\ simTime' = simTime + UpdateArg(delta_time)
    /\ updates' = updates + 1
    /\ delta_time' = delta_time - FixedStep
    /\ last_time' = curr_time
    /\ loop_count' = loop_count + 1
    /\ pc' = "while"
    /\ UNCHANGED <<masterTime, currerntHighScore, curr_time, now, draws>>

\* one iteration of the while loop, first half: update(...)
UpdateStep(xs) ==
    /\ pc = "while"
    /\ delta_time > FixedStep
    /\ \E rx \in xs, sx \in xs :
          LET w == update(World, rx, sx)
              h == IF Key_space \in entities[player].raw_input
                   THEN held + 1 ELSE 0
          IN  /\ Store(w)
              /\ held' = h
              /\ shots' = IF w.fired
                          THEN Append(shots, [at |-> updates + 1, held |-> h])
                          ELSE shots
              /\ restarts' = IF w.restarted THEN restarts + 1 ELSE restarts
    /\ stepArg' = UpdateArg(delta_time)
    /\ simTime' = simTime + UpdateArg(delta_time)
    /\ updates' = updates + 1
    /\ pc' = "draw"
    /\ UNCHANGED <<masterTime, currerntHighScore, last_time, loop_count,
                   delta_time, curr_time, now, draws>>

\* one iteration of the while loop, second half: draw(graphics) and the
\* bookkeeping that follows it
DrawStep ==
    /\ pc = "draw"
    /\ draws' = draws + 1
    /\ delta_time' = delta_time - FixedStep
    /\ last_time' = curr_time
    /\ loop_count' = loop_count + 1
    /\ pc' = "while"
    /\ UNCHANGED <<entities, queue, player, running_id, enemiesHit,
                   enemyCount, masterTime, timeAliveCount, prevAliveCount,
                   currerntHighScore, masterHighScore, projShotTime,
                   curr_time, now, stepLog, stepArg, simTime, updates,
                   shots, held, damage, kills, restarts, moves, flushed>>

\* the while loop ends and loop() asks for the next frame
LoopEnd ==
    /\ pc = "while"
    /\ delta_time <= FixedStep
    /\ pc' = "idle"
    /\ UNCHANGED <<entities, queue, player, running_id, enemiesHit,
                   enemyCount, masterTime, timeAliveCount, prevAliveCount,
                   currerntHighScore, masterHighScore, projShotTime,
                   last_time, loop_count, delta_time, curr_time, now,
                   stepLog, stepArg, simTime, updates, draws, shots, held,
                   damage, kills, restarts, moves, flushed>>

unchangedByKeys ==
    UNCHANGED <<queue, player, running_id, enemiesHit,
                enemyCount, masterTime, timeAliveCount, prevAliveCount,
                currerntHighScore, masterHighScore, projShotTime,
                last_time, loop_count, delta_time, curr_time, pc, now,
                stepLog, stepArg, simTime, updates, draws, shots, held,
                damage, kills, restarts, moves, flushed>>

\* InputHandler.keydown, between two frame callbacks
keydown(k, period) ==
    /\ pc = "idle"
    /\ loop_count % period = 0
    /\ k \notin entities[player].raw_input
    /\ entities' = [entities EXCEPT ![player].raw_input = @ \cup {k}]
    /\ unchangedByKeys

\* InputHandler.keyup, between two frame callbacks
keyup(k, period) ==
    /\ pc = "idle"
    /\ loop_count % period = 0
    /\ k \in entities[player].raw_input
    /\ entities' = [entities EXCEPT ![player].raw_input = @ \ {k}]
    /\ unchangedByKeys

----------------------------------------------------------------------------
(* Specifications *)

AllKeys == {Key_space, Key_right, Key_left, Key_up, Key_down}

NextWith(keys, gaps, xs, maxLoop, period) ==
    \/ \E gap \in gaps : Loop(gap, maxLoop)
    \/ UpdateStep(xs)
    \/ DrawStep
    \/ LoopEnd
    \/ \E k \in keys : keydown(k, period)
    \/ \E k \in keys : keyup(k, period)

\* The game played with the up and the space key on a display that delivers
\* a frame every FrameGap ticks, the enemies appearing above the player
MaxLoop == 145
KeyPeriod == 20
FrameGap == 7
Keys == {Key_up, Key_space}
SpawnXs == {180}

Init == InitWith(SpawnXs)

Next == NextWith(Keys, {FrameGap}, SpawnXs, MaxLoop, KeyPeriod)

Spec == Init /\ [][Next]_vars

\* The scheduler under frames that arrive early, on time, late and after a
\* stall
MaxLoopFrames == 8
FrameGaps == {3, 7, 13, 18}
FrameKeys == {Key_space}
FrameXs == {30, 289}

InitFrames == InitWith(FrameXs)

NextFrames == NextWith(FrameKeys, FrameGaps, FrameXs, MaxLoopFrames, 1)

SpecFrames == InitFrames /\ [][NextFrames]_vars

\* The player steered with every key, the keys changing every MovePeriod
\* steps
MaxLoopMove == 52
MovePeriod == 26
MoveXs == {30, 289}

InitMove == InitWith(MoveXs)

NextMove == NextWith(AllKeys, {FrameGap}, MoveXs, MaxLoopMove, MovePeriod)

SpecMove == InitMove /\ [][NextMove]_vars

\* Several sessions in a row: the same game as Spec, played for longer with
\* the keys changing every SessionsPeriod steps
MaxLoopSessions == 300
SessionsPeriod == 70

NextSessions ==
    NextWith(Keys, {FrameGap}, SpawnXs, MaxLoopSessions, SessionsPeriod)

SpecSessions == Init /\ [][NextSessions]_vars

\* update() is defined in every state, so the first half of an iteration is
\* enabled exactly when the while loop is at its test and the test holds
UpdateStepEnabled == pc = "while" /\ delta_time > FixedStep

\* The game with the enemies appearing at the left edge, the player steered
\* with the left and the space key, and frames that keep coming: every
\* frame callback that is due runs, and so does every iteration of its loop.
\* The conjunct on UpdateStepEnabled is WF_vars(UpdateStep(LiveXs)), with the
\* enabling condition written out: a step that stays enabled is taken, and
\* taking it disables it
MaxLoopLive == 260
LivePeriod == 65
LiveKeys == {Key_left, Key_space}
LiveXs == {30}

InitLive == InitWith(LiveXs)

NextLive == NextWith(LiveKeys, {FrameGap}, LiveXs, MaxLoopLive, LivePeriod)

SpecLive ==
    /\ InitLive
    /\ [][NextLive]_vars
    /\ WF_vars(Loop(FrameGap, MaxLoopLive))
    /\ []<>~UpdateStepEnabled
    /\ WF_vars(DrawStep)
    /\ WF_vars(LoopEnd)

----------------------------------------------------------------------------
(* Properties *)

Events(ev) == {i \in 1..Len(stepLog) : stepLog[i].ev = ev}

\* C1: every update call made by loop() receives the fixed step, never a
\* partial step, so after N update calls the simulated time is N * FixedStep
FixedStepOnly ==
    /\ stepArg = FixedStep
    /\ simTime = updates * FixedStep

\* the loop has run three steps in one callback and is left with a partial
\* step that it does not apply
FixedStepOnlyWitness ==
    /\ pc = "while"
    /\ updates >= 3
    /\ loop_count = updates
    /\ delta_time > 0
    /\ delta_time < FixedStep
    /\ curr_time - last_time = 0
    /\ now = masterTime
    /\ simTime < now

RECURSIVE Dedup(_)
\* the queue with every id kept at its first place only
Dedup(q) ==
    IF q = <<>> THEN <<>>
    ELSE <<Head(q)>> \o Dedup(SelectSeq(Tail(q), LAMBDA i : i # Head(q)))

FlushedOnce ==
    FlushAll([entities |-> flushed.before, player |-> flushed.player],
             Dedup(flushed.queue)).entities

\* C4: an id queued twice in one step is removed once: the flush leaves the
\* registry and the observation arrays as if the id had been queued once
IdempotentRemoval == flushed.after = FlushedOnce

StepsPerSecond == TimeUnit \div FixedStep

\* C5: two Projectiles are spawned at least 0.5 s of simulated time (30 fixed
\* steps) apart, and with action_1 held all the while never within 0.4 s
ShotsHalfSecondApart ==
    \A i \in 1..(Len(shots) - 1) :
        LET gap == shots[i + 1].at - shots[i].at IN
        /\ 2 * gap >= StepsPerSecond
        /\ shots[i + 1].held > gap => 10 * gap > 4 * StepsPerSecond

\* C6: after every update step the Player is inside the canvas:
\* 0 <= x <= 360 and 0 <= y <= 500
PlayerInBounds ==
    /\ 0 <= entities[player].x
    /\ entities[player].x <= 360 * Scale
    /\ 0 <= entities[player].y
    /\ entities[player].y <= 500 * Scale

\* the player stands on the bottom edge and the controller pushes it further
\* down
PlayerInBoundsWitness ==
    /\ pc = "draw"
    /\ entities[player].controller.move_y = 1
    /\ entities[player].y = 500 * Scale
    /\ entities[player].enemyTimer > 50

Enemies == {id \in DOMAIN entities : entities[id].kind = "Enemy"}

EnemyInside(e) ==
    /\ 0 <= e.x
    /\ e.x <= 410 * Scale
    /\ 0 <= e.y
    /\ e.y <= 550 * Scale

UpdatedInLastStep(id) == \E i \in Events("update") : stepLog[i].id = id

\* C7 as stated: after every update step every Enemy in the registry is
\* inside 0 <= x <= 410 and 0 <= y <= 550
EnemyInBounds ==
    updates >= 1 => \A id \in Enemies : EnemyInside(entities[id])

\* C7 as amended: after every update step every Enemy of the registry that
\* the step has updated is inside 0 <= x <= 410 and 0 <= y <= 550; an Enemy
\* that the step has constructed is still at y = -50
UpdatedEnemyInBounds ==
    updates >= 1 =>
        \A id \in Enemies :
            IF UpdatedInLastStep(id)
            THEN EnemyInside(entities[id])
            ELSE entities[id].y = (-50) * Scale

\* an Enemy has had its first update, which took it from y = -50 to the edge
\* y = 0, while older enemies are further down
UpdatedEnemyInBoundsWitness ==
    /\ pc = "draw"
    /\ \E m \in 1..Len(moves) :
          /\ moves[m].y0 = (-50) * Scale
          /\ moves[m].id \in Enemies
          /\ UpdatedInLastStep(moves[m].id)
          /\ entities[moves[m].id].y = 0
    /\ \E id \in Enemies : entities[id].y > 100 * Scale

\* the condition of C8 on one recorded Enemy update: the vertical distance to
\* the player is strictly between 0 and 150 and the rounded y is a multiple
\* of 4
HomingCase(m) ==
    /\ m.py - m.y0 > 0
    /\ m.py - m.y0 < 150 * Scale
    /\ ((m.y0 + 500) \div 1000) % 4 = 0

Diagonal(m) ==
    /\ m.y1 > m.y0
    /\ m.x1 - m.x0 \in {m.y1 - m.y0, m.y0 - m.y1}
    /\ m.px > m.x0 => m.x1 > m.x0
    /\ m.px < m.x0 => m.x1 < m.x0

\* C8 as stated: an Enemy update moves the enemy diagonally toward the
\* player's side in the homing case, and in every other case leaves x and
\* adds exactly the speed to y
HomingOrStraight ==
    \A i \in 1..Len(moves) :
        IF HomingCase(moves[i])
        THEN Diagonal(moves[i])
        ELSE /\ moves[i].x1 = moves[i].x0
             /\ moves[i].y1 = moves[i].y0 + 3 * Scale

Within(v, hi) == IF v < 0 THEN 0 ELSE IF v > hi THEN hi ELSE v

\* C8 as amended: the move is the stated one (in the homing case x goes up
\* when the player is to the right and down otherwise), followed by the clip
\* of the position to 0 <= x <= 410 and 0 <= y <= 550, so that the first
\* update of an Enemy takes it from y = -50 to y = 0
HomingOrStraightClipped ==
    \A i \in 1..Len(moves) :
        LET m == moves[i]
            d == EnemyDiagonalStep
        IN  IF HomingCase(m)
            THEN /\ m.y1 = Within(m.y0 + d, 550 * Scale)
                 /\ m.x1 = Within(IF m.px > m.x0 THEN m.x0 + d ELSE m.x0 - d,
                                  410 * Scale)
            ELSE /\ m.x1 = Within(m.x0, 410 * Scale)
                 /\ m.y1 = Within(m.y0 + 3 * Scale, 550 * Scale)

\* one step in which an enemy homes to the right, another homes to the
\* left and a third, outside the homing case, falls straight down
HomingOrStraightClippedWitness ==
    /\ \E i \in 1..Len(moves) :
          HomingCase(moves[i]) /\ moves[i].x1 > moves[i].x0
    /\ \E i \in 1..Len(moves) :
          HomingCase(moves[i]) /\ moves[i].x1 < moves[i].x0
    /\ \E i \in 1..Len(moves) :
          /\ ~HomingCase(moves[i])
          /\ moves[i].py - moves[i].y0 < 150 * Scale
          /\ moves[i].y1 = moves[i].y0 + 3 * Scale

\* the ids of the bodies that a step has constructed and left in the registry
Constructed ==
    IF restarts' # restarts
    THEN DOMAIN entities'
    ELSE DOMAIN entities' \ DOMAIN entities

\* C9: ids are unique and never reused: every body constructed gets an id
\* above all ids given before, also across a restart, and every key of the
\* registry maps to the body that was given that id
IdsNeverReused ==
    [][/\ running_id' >= running_id
       /\ \A k \in Constructed : running_id <= k /\ k < running_id'
       /\ \A k \in DOMAIN entities' : entities'[k].id = k /\ k < running_id'
       /\ Cardinality({entities'[k].id : k \in DOMAIN entities'}) =
              Cardinality(DOMAIN entities')]_vars

\* a restart has given the new Player and the new Enemy ids above those of
\* the first session
IdsNeverReusedWitness ==
    /\ restarts >= 1
    /\ player >= 2
    /\ entities[player].id = player
    /\ player + 1 \in Enemies
    /\ running_id = player + 2

Players == {id \in DOMAIN entities : entities[id].kind = "Player"}

\* C10: the registry holds exactly one Player, the one that the global player
\* names, and no step queues it for removal or flushes it
OnePlayer ==
    /\ Players = {player}
    /\ \A i \in Events("remove") : stepLog[i].id \notin Players
    /\ flushed # NoFlush =>
          /\ \A k \in 1..Len(flushed.queue) : flushed.queue[k] # flushed.player
          /\ flushed.player \in DOMAIN flushed.after

\* a step has flushed the enemies of a dead player, kept that player in the
\* registry, and then restarted the game with a new Player
OnePlayerWitness ==
    /\ restarts >= 1
    /\ pc = "draw"
    /\ player >= 2
    /\ entities[player].kind = "Player"
    /\ flushed.queue # <<>>
    /\ flushed.player < player
    /\ flushed.player \in DOMAIN flushed.after
    /\ player \notin DOMAIN flushed.after

\* the last update() call has ended with a call of start()
JustRestarted == pc = "draw" /\ Events("start") # {}

\* the state is the one that the start() call at load time has left
JustLoaded == updates = 0 /\ last_time = Null

\* C11: right after start() the kill count, the enemy-spawn count, the time
\* alive and the current score are 0, the queue is empty, and the registry
\* holds a fresh Player with health 100 and one Enemy, and nothing of the
\* session before
FreshAfterStart ==
    JustRestarted \/ JustLoaded =>
        /\ enemiesHit = 0
        /\ enemyCount = 0
        /\ timeAliveCount = 0
        /\ currerntHighScore = 0
        /\ queue = <<>>
        /\ DOMAIN entities = {player, player + 1}
        /\ entities[player].kind = "Player"
        /\ entities[player].health = 100
        /\ entities[player].enemyTimer = 0
        /\ entities[player].enemies = <<>>
        /\ entities[player].projectiles = <<>>
        /\ entities[player + 1].kind = "Enemy"
        /\ entities[player + 1].y = (-50) * Scale
        /\ JustRestarted => DOMAIN entities \cap DOMAIN flushed.after = {}

\* C12: once the player's health has reached 0, no later step of that session
\* spawns an Enemy, raises the enemy-spawn counter or raises the kill counter
SuppressedWhenDead ==
    [][(isDead(entities[player]) /\ restarts' = restarts) =>
          /\ enemyCount' = enemyCount
          /\ enemiesHit' = enemiesHit
          /\ \A id \in DOMAIN entities' \ DOMAIN entities :
                entities'[id].kind # "Enemy"]_vars

\* the registry of the last flush after the first k ids of its queue
FlushPrefix(k) ==
    FlushAll([entities |-> flushed.before, player |-> flushed.player],
             SubSeq(flushed.queue, 1, k)).entities

\* C13: flushing a queued id that names no entity of the registry changes
\* nothing: the registry and the player's observation arrays stay as they were
UnknownIdNoOp ==
    \A k \in 1..Len(flushed.queue) :
        flushed.queue[k] \notin DOMAIN FlushPrefix(k - 1) =>
            FlushPrefix(k) = FlushPrefix(k - 1)

\* C14: an update step calls start() if and only if the player is dead at
\* the end of the step and the action_1 polled at its start is true; a live
\* player's session is never reset and a dead player stays dead until then
RestartIffDeadAndPressed ==
    [][/\ updates' # updates =>
             (restarts' # restarts <=>
                 /\ Key_space \in entities[player].raw_input
                 /\ flushed'.after[flushed'.player].health <= 0)
       /\ restarts' = restarts =>
             /\ player' = player
             /\ isDead(entities[player]) => isDead(entities'[player])]_vars

\* a player that was dead for several steps with action_1 released is
\* replaced by start() in the step that polls action_1 as pressed
RestartIffDeadAndPressedWitness ==
    /\ JustRestarted
    /\ restarts = 1
    /\ flushed.after[flushed.player].health <= 0
    /\ flushed.after[flushed.player].enemyTimer > 135
    /\ entities[player].health = 100

\* C15: every entry of player.enemies or player.projectiles that a collision
\* test reads was published earlier in the same step, by the entity whose id
\* is the entry's index, with the position that the entry holds
ReadsArePublished ==
    \A r \in Events("read") :
        \E p \in Events("publish") :
            /\ p < r
            /\ stepLog[p].arr = stepLog[r].arr
            /\ stepLog[p].idx = stepLog[r].idx
            /\ stepLog[p].val = stepLog[r].val

\* C16: while the player is dead the high score does not change, from the
\* step in which the health reaches 0 until the restart
HighScoreFrozenWhenDead ==
    [][(isDead(entities[player]) /\ restarts' = restarts) =>
          masterHighScore' = masterHighScore]_vars

\* C17: update and draw strictly alternate: an update starts only when every
\* update before it has had its draw, a draw follows exactly one update, and
\* the loop counter is the number of completed update+draw pairs
StrictAlternation ==
    /\ loop_count = draws
    /\ updates = IF pc = "draw" THEN draws + 1 ELSE draws

\* the sixth update, in the third frame callback, is waiting for its draw
\* after five completed pairs, and the callback has time left for another pair
StrictAlternationWitness ==
    /\ pc = "draw"
    /\ updates = 6
    /\ draws = 5
    /\ loop_count = 5
    /\ delta_time > 2 * FixedStep

NewKills == {k \in 1..Len(kills') : k > Len(kills)}

\* C20: every increment of the kill counter in a step is for a distinct
\* Enemy that is in the registry during the step and is removed from it by
\* the flush of that step
KillsAreRemovedEnemies ==
    [][\A k \in NewKills :
          LET e == kills'[k].idx IN
          /\ e \in DOMAIN flushed'.before
          /\ flushed'.before[e].kind = "Enemy"
          /\ e \notin DOMAIN flushed'.after
          /\ \A j \in NewKills : kills'[j].idx = e => j = k]_vars

\* an Enemy or a Projectile with that id is in the registry
Live(id) == id \in DOMAIN entities /\ entities[id].kind # "Player"

\* the number of update steps within which a body has left the screen
Lifetime == 190

\* a bound on the ids that a game of MaxLoopLive steps gives: fewer than one
\* body is constructed every 8 steps
MaxId == MaxLoopLive \div 8

\* C21: as long as update steps keep occurring, every Enemy and every
\* Projectile that is in the registry is eventually removed from it: one
\* that is there with Lifetime steps still to come is out before they end
EventuallyRemoved ==
    /\ [](running_id <= MaxId + 1)
    /\ \A id \in 0..MaxId :
          (Live(id) /\ loop_count + Lifetime <= MaxLoopLive) ~> ~Live(id)

\* an Enemy has gone past the bottom of the screen, has queued itself and
\* has been flushed, in a game in which the player has fired and is alive
EventuallyRemovedWitness ==
    /\ pc = "draw"
    /\ \E m \in 1..Len(moves) :
          /\ moves[m].y1 > 500 * Scale
          /\ moves[m].id \notin DOMAIN entities
          /\ moves[m].id \in DOMAIN flushed.before
    /\ shots # <<>>
    /\ entities[player].health > 0

====
